---- MODULE Spec2Model ----
(***************************************************************************)
(* Model of src/main.rs: shapes behind Arc<Mutex<dyn Shape>> handles kept  *)
(* in a Canvas, mutated by the main thread and by scoped worker threads.   *)
(*                                                                         *)
(* f32 values are modelled by integers: every value the program computes   *)
(* on an origin is a small integer, which f32 represents exactly.          *)
(***************************************************************************)
EXTENDS Bags, FiniteSets, Integers, Sequences, TLC

VARIABLES
    shapes,     \* Canvas.shapes: sequence of handles (Vec<ShapeObject>)
    heap,       \* handle -> the shape value inside the Mutex
    guard,      \* handle -> "free" | "locked": the Mutex of each handle
    owned,      \* handles held by the main thread outside the canvas
    frames,     \* bag of running calls: one frame per thread's current call
    main,       \* the main thread: its position and its loop counter
    out,        \* the origins printed so far (println!)
    nworkers,   \* how many workers the scope spawns
    start,      \* origin of the target shape when the first worker is spawned
    overlap,    \* history: some read fell between another worker's read and write
    hist        \* history: handle -> origins that were set whole on it

vars == <<shapes, heap, guard, owned, frames, main, out, nworkers, start, overlap, hist>>

--------------------------------------------------------------------------
(* Bounds of the model                                                     *)

MaxWorkers == 4      \* workers of the generalised increment workload
MaxX0 == 1           \* initial origin.x of the generalised workload: 0..MaxX0
MaxShapes == 2       \* shapes created by the API harness
MaxCalls == 2        \* threads of one scope of the API harness
MaxOps == 3          \* calls the owner of a canvas makes on it
MaxDim == 4          \* radius, sides, base and height of a shape: 0..MaxDim
MaxCoord == 2        \* coordinates passed by the API harness: 1..MaxCoord

--------------------------------------------------------------------------
(* Data model                                                              *)

Coord(x, y) == [x |-> x, y |-> y]

Coord_default == Coord(0, 0)

None == 0

\* filler of a frame's Coord slot that holds nothing yet
NoCoord == Coord(0, 0)

\* Option<f32>
NoArea == [some |-> FALSE, pi |-> FALSE, twice |-> 0]

SomeArea(a) == [some |-> TRUE, pi |-> a.pi, twice |-> a.twice]

Circle(origin, radius) == [kind |-> "Circle", origin |-> origin, radius |-> radius]

Rectangle(origin, side_a, side_b) ==
    [kind |-> "Rectangle", origin |-> origin, side_a |-> side_a, side_b |-> side_b]

Triangle(origin, base, height) ==
    [kind |-> "Triangle", origin |-> origin, base |-> base, height |-> height]

\* Shape::origin
Shape_origin(s) == s.origin

\* variant: the second word of the origin is not stored
Shape_set_origin_y_Skip(s, y) == s

\* variant: the stored x is off by one
Shape_set_origin_x_Off(s, x) == [s EXCEPT !.origin.x = x + 1]

\* Shape::set_origin, one field at a time (the store of a Coord is two words)
Shape_set_origin_x(s, x) == [s EXCEPT !.origin.x = x]

Shape_set_origin_y(s, y) == [s EXCEPT !.origin.y = y]

\* variant: the triangle's 0.5 is missing
Shape_get_area_NoHalf(s) ==
    CASE s.kind = "Circle"    -> [pi |-> TRUE,  twice |-> 2 * s.radius * s.radius]
      [] s.kind = "Rectangle" -> [pi |-> FALSE, twice |-> 2 * s.side_a * s.side_b]
      [] s.kind = "Triangle"  -> [pi |-> FALSE, twice |-> 2 * s.base * s.height]

\* Shape::get_area.  The value is kept as twice the area divided by pi's
\* factor, so that 0.5 * base * height stays an integer: [pi, twice].
Shape_get_area(s) ==
    CASE s.kind = "Circle"    -> [pi |-> TRUE,  twice |-> 2 * s.radius * s.radius]
      [] s.kind = "Rectangle" -> [pi |-> FALSE, twice |-> 2 * s.side_a * s.side_b]
      [] s.kind = "Triangle"  -> [pi |-> FALSE, twice |-> s.base * s.height]

\* Arc::new(Mutex::new(v)): the next handle
NewHandle == Len(heap) + 1

\* variant: an index past the end wraps around
Canvas_get_Wrap(index) ==
    IF shapes = <<>> THEN None ELSE shapes[(index % Len(shapes)) + 1]

\* Canvas::get: index is a usize, counted from 0
Canvas_get(index) == IF index < Len(shapes) THEN shapes[index + 1] ELSE None

\* variant: the element kept at the removed position is the removed one
VecRemove_Off(v, index) ==
    [k \in 1..(Len(v) - 1) |-> IF k <= index + 1 THEN v[k] ELSE v[k + 1]]

\* Vec::remove: the elements after index move one position down
VecRemove(v, index) ==
    [k \in 1..(Len(v) - 1) |-> IF k <= index THEN v[k] ELSE v[k + 1]]

--------------------------------------------------------------------------
(* Call frames                                                             *)

\* A frame is one thread's running call.  op is the code being run:
\*   "origin"      canvas.get(i).unwrap().lock().unwrap().origin()
\*   "set_origin"  canvas.set_origin(i, c)
\*   "get_area"    canvas.get_area(i)
\*   "get"         canvas.get(i)
\*   "incr"        the worker closure: origin, then set_origin of x + 1
\*   "update"      set_origin, then origin (tests::update_origin)
Frame(thr, op, idx, arg, pc) ==
    [thr |-> thr, op |-> op, idx |-> idx, arg |-> arg, pc |-> pc,
     h |-> None, loc |-> NoCoord, res |-> NoCoord, area |-> NoArea, got |-> None]

FirstPc(op) ==
    CASE op = "origin"     -> "o_lock"
      [] op = "incr"       -> "o_lock"
      [] op = "set_origin" -> "s_lock"
      [] op = "update"     -> "s_lock"
      [] op = "get_area"   -> "a_lock"
      [] op = "get"        -> "g_get"

\* A finished frame keeps its arguments and its return value: res of origin(), area of
\* get_area(), got of get().
Done(f) ==
    [thr |-> f.thr, op |-> f.op, idx |-> f.idx, arg |-> f.arg, pc |-> "done",
     h |-> None, loc |-> NoCoord, res |-> NoCoord, area |-> NoArea, got |-> None]

Panicked(f) == [Done(f) EXCEPT !.pc = "panicked"]

\* the Coord a frame passes to set_origin: its argument, or for the worker
\* closure the Coord { x: x + 1.0, y } it built from what it read
Origin(f) == IF f.op = "incr" THEN f.loc ELSE f.arg

Live(f) == f.pc \notin {"done", "panicked"}

Holding(f) == f.pc \in {"o_x", "o_y", "s_x", "s_y", "a_calc"}

\* a worker that has read the origin and not yet written it back
InGap(f) == f.op = "incr" /\ f.pc \in {"s_lock", "s_x", "s_y"}

Running == BagToSet(frames)

Replace(f, g) == frames' = (frames (-) SetToBag({f})) (+) SetToBag({g})

Workers == {f \in Running : f.thr = "worker"}

LiveWorkers == {f \in Workers : Live(f)}

Count(S) == LET n[T \in SUBSET S] ==
                    IF T = {} THEN 0
                    ELSE LET f == CHOOSE g \in T : TRUE
                         IN  CopiesIn(f, frames) + n[T \ {f}]
            IN  n[S]

--------------------------------------------------------------------------
(* Mutex                                                                   *)

\* variant: lock never waits
CanLock_Always(h) == TRUE

\* variant: one lock over the whole collection
CanLock_Global(h) == \A k \in DOMAIN guard : guard[k] = "free"

\* Mutex::lock succeeds only on a free mutex; the caller blocks otherwise.
CanLock(h) == guard[h] = "free"

Lock(h) == guard' = [guard EXCEPT ![h] = "locked"]

\* drop of the MutexGuard
Unlock(h) == guard' = [guard EXCEPT ![h] = "free"]

--------------------------------------------------------------------------
(* canvas.get(i).unwrap().lock().unwrap().origin()   (lines 125, 133, 142, *)
(* 150, 184, 189)                                                          *)

\* variant: the origin is read without taking the mutex
OriginLock_Unguarded(f) ==
    /\ f.pc = "o_lock"
    /\ Canvas_get(f.idx) # None
    /\ LET h == Canvas_get(f.idx) IN
         /\ Lock(h)
         /\ Replace(f, [f EXCEPT !.pc = "o_x", !.h = h, !.loc = Coord_default])
    /\ overlap' = (overlap \/ (f.op = "incr" /\ \E g \in Running : InGap(g)))
    /\ UNCHANGED <<shapes, heap, owned, main, out, nworkers, start, hist>>

\* get(i) is Some: lock() takes the mutex, or blocks while it is locked
OriginLock(f) ==
    /\ f.pc = "o_lock"
    /\ Canvas_get(f.idx) # None
    /\ LET h == Canvas_get(f.idx) IN
         /\ CanLock(h)
         /\ Lock(h)
         /\ Replace(f, [f EXCEPT !.pc = "o_x", !.h = h, !.loc = Coord_default])
    /\ overlap' = (overlap \/ (f.op = "incr" /\ \E g \in Running : InGap(g)))
    /\ UNCHANGED <<shapes, heap, owned, main, out, nworkers, start, hist>>

\* get(i) is None: unwrap() panics, before any lock
OriginUnwrapNone(f) ==
    /\ f.pc = "o_lock"
    /\ Canvas_get(f.idx) = None
    /\ Replace(f, Panicked(f))
    /\ UNCHANGED <<shapes, heap, guard, owned, main, out, nworkers, start, overlap, hist>>

\* Shape::origin copies the Coord out: first x ...
OriginReadX(f) ==
    /\ f.pc = "o_x"
    /\ Replace(f, [f EXCEPT !.pc = "o_y", !.loc.x = Shape_origin(heap[f.h]).x])
    /\ UNCHANGED <<shapes, heap, guard, owned, main, out, nworkers, start, overlap, hist>>

\* variant: the worker writes back the x it read
OriginReadY_NoIncr(f) ==
    /\ f.pc = "o_y"
    /\ LET c == [f.loc EXCEPT !.y = Shape_origin(heap[f.h]).y] IN
         Replace(f, IF f.op = "incr"
                    THEN [f EXCEPT !.pc = "s_lock", !.h = None, !.loc = Coord(c.x, c.y)]
                    ELSE [Done(f) EXCEPT !.res = c])
    /\ Unlock(f.h)
    /\ UNCHANGED <<shapes, heap, owned, main, out, nworkers, start, overlap, hist>>

\* variant: the worker adds two
OriginReadY_Plus2(f) ==
    /\ f.pc = "o_y"
    /\ LET c == [f.loc EXCEPT !.y = Shape_origin(heap[f.h]).y] IN
         Replace(f, IF f.op = "incr"
                    THEN [f EXCEPT !.pc = "s_lock", !.h = None, !.loc = Coord(c.x + 2, c.y)]
                    ELSE [Done(f) EXCEPT !.res = c])
    /\ Unlock(f.h)
    /\ UNCHANGED <<shapes, heap, owned, main, out, nworkers, start, overlap, hist>>

\* variant: the worker keeps the guard of its read for the write
OriginReadY_Keep(f) ==
    /\ f.pc = "o_y"
    /\ LET c == [f.loc EXCEPT !.y = Shape_origin(heap[f.h]).y] IN
         IF f.op = "incr"
         THEN /\ Replace(f, [f EXCEPT !.pc = "s_lock", !.loc = Coord(c.x + 1, c.y)])
              /\ UNCHANGED guard
         ELSE /\ Replace(f, [Done(f) EXCEPT !.res = c])
              /\ Unlock(f.h)
    /\ UNCHANGED <<shapes, heap, owned, main, out, nworkers, start, overlap, hist>>

\* ... then y; the guard is dropped at the end of the statement.  The worker
\* goes on to canvas.set_origin(1, Coord { x: x + 1.0, y }) (line 143).
OriginReadY(f) ==
    /\ f.pc = "o_y"
    /\ LET c == [f.loc EXCEPT !.y = Shape_origin(heap[f.h]).y] IN
         Replace(f, IF f.op = "incr"
                    THEN [f EXCEPT !.pc = "s_lock", !.h = None, !.loc = Coord(c.x + 1, c.y)]
                    ELSE [Done(f) EXCEPT !.res = c])
    /\ Unlock(f.h)
    /\ UNCHANGED <<shapes, heap, owned, main, out, nworkers, start, overlap, hist>>

--------------------------------------------------------------------------
(* Canvas::set_origin   (lines 93-97)                                      *)

\* self.shapes.get(index) is Some(shape): shape.lock().unwrap()
SetOriginLock(f) ==
    /\ f.pc = "s_lock"
    /\ Canvas_get(f.idx) # None
    /\ LET h == Canvas_get(f.idx) IN
         /\ CanLock(h)
         /\ Lock(h)
         /\ Replace(f, [f EXCEPT !.pc = "s_x", !.h = h])
    /\ UNCHANGED <<shapes, heap, owned, main, out, nworkers, start, overlap, hist>>

\* variant: the missing shape is unwrapped
SetOriginNone_Unwrap(f) ==
    /\ f.pc = "s_lock"
    /\ Canvas_get(f.idx) = None
    /\ Replace(f, Panicked(f))
    /\ UNCHANGED <<shapes, heap, guard, owned, main, out, nworkers, start, overlap, hist>>

\* self.shapes.get(index) is None: the if-let body is skipped
SetOriginNone(f) ==
    /\ f.pc = "s_lock"
    /\ Canvas_get(f.idx) = None
    /\ Replace(f, IF f.op = "update" THEN [f EXCEPT !.pc = "o_lock"] ELSE Done(f))
    /\ UNCHANGED <<shapes, heap, guard, owned, main, out, nworkers, start, overlap, hist>>

\* variant: a write never lowers x
SetOriginWriteX_Max(f) ==
    /\ f.pc = "s_x"
    /\ heap' = [heap EXCEPT ![f.h] =
                   IF Origin(f).x > Shape_origin(@).x
                   THEN Shape_set_origin_x(@, Origin(f).x) ELSE @]
    /\ Replace(f, [f EXCEPT !.pc = "s_y"])
    /\ UNCHANGED <<shapes, guard, owned, main, out, nworkers, start, overlap, hist>>

\* self.origin = origin, first word
SetOriginWriteX(f) ==
    /\ f.pc = "s_x"
    /\ heap' = [heap EXCEPT ![f.h] = Shape_set_origin_x(@, Origin(f).x)]
    /\ Replace(f, [f EXCEPT !.pc = "s_y"])
    /\ UNCHANGED <<shapes, guard, owned, main, out, nworkers, start, overlap, hist>>

\* variant: the guard is never dropped
SetOriginWriteY_Leak(f) ==
    /\ f.pc = "s_y"
    /\ heap' = [heap EXCEPT ![f.h] = Shape_set_origin_y(@, Origin(f).y)]
    /\ hist' = [hist EXCEPT ![f.h] = @ \cup {Origin(f)}]
    /\ Replace(f, IF f.op = "update" THEN [f EXCEPT !.pc = "o_lock", !.h = None]
                  ELSE Done(f))
    /\ UNCHANGED <<shapes, guard, owned, main, out, nworkers, start, overlap>>

\* self.origin = origin, second word; the guard is dropped
SetOriginWriteY(f) ==
    /\ f.pc = "s_y"
    /\ heap' = [heap EXCEPT ![f.h] = Shape_set_origin_y(@, Origin(f).y)]
    /\ Unlock(f.h)
    /\ hist' = [hist EXCEPT ![f.h] = @ \cup {Origin(f)}]
    /\ Replace(f, IF f.op = "update" THEN [f EXCEPT !.pc = "o_lock", !.h = None]
                  ELSE Done(f))
    /\ UNCHANGED <<shapes, owned, main, out, nworkers, start, overlap>>

--------------------------------------------------------------------------
(* Canvas::get_area and Canvas::get   (lines 84-92)                        *)

\* self.get(index) is Some(s): s.lock().unwrap()
GetAreaLock(f) ==
    /\ f.pc = "a_lock"
    /\ Canvas_get(f.idx) # None
    /\ LET h == Canvas_get(f.idx) IN
         /\ CanLock(h)
         /\ Lock(h)
         /\ Replace(f, [f EXCEPT !.pc = "a_calc", !.h = h])
    /\ UNCHANGED <<shapes, heap, owned, main, out, nworkers, start, overlap, hist>>

\* self.get(index) is None: map leaves None
GetAreaNone(f) ==
    /\ f.pc = "a_lock"
    /\ Canvas_get(f.idx) = None
    /\ Replace(f, Done(f))
    /\ UNCHANGED <<shapes, heap, guard, owned, main, out, nworkers, start, overlap, hist>>

\* variant: the guard outlives the call
GetAreaCalc_Leak(f) ==
    /\ f.pc = "a_calc"
    /\ Replace(f, [Done(f) EXCEPT !.area = SomeArea(Shape_get_area(heap[f.h]))])
    /\ UNCHANGED <<shapes, heap, guard, owned, main, out, nworkers, start, overlap, hist>>

\* .get_area() under the guard, which is dropped when the closure returns
GetAreaCalc(f) ==
    /\ f.pc = "a_calc"
    /\ Replace(f, [Done(f) EXCEPT !.area = SomeArea(Shape_get_area(heap[f.h]))])
    /\ Unlock(f.h)
    /\ UNCHANGED <<shapes, heap, owned, main, out, nworkers, start, overlap, hist>>

\* variant: get waits for the guard of the shape it returns
GetCall_Locked(f) ==
    /\ f.pc = "g_get"
    /\ Canvas_get(f.idx) # None => CanLock(Canvas_get(f.idx))
    /\ Replace(f, [Done(f) EXCEPT !.got = Canvas_get(f.idx)])
    /\ UNCHANGED <<shapes, heap, guard, owned, main, out, nworkers, start, overlap, hist>>

\* Canvas::get: Some(handle) or None, no lock
GetCall(f) ==
    /\ f.pc = "g_get"
    /\ Replace(f, [Done(f) EXCEPT !.got = Canvas_get(f.idx)])
    /\ UNCHANGED <<shapes, heap, guard, owned, main, out, nworkers, start, overlap, hist>>

--------------------------------------------------------------------------
(* fn main   (lines 100-152)                                               *)

NumWorkers == 10

MainAt(line) == main.line = line

Goto(line) == main' = [main EXCEPT !.line = line]

\* Arc::new(Mutex::new(shape)) as ShapeObject
New(shape) ==
    /\ Len(heap) = Len(guard)
    /\ heap' = Append(heap, shape)
    /\ guard' = Append(guard, "free")
    /\ hist' = Append(hist, {Shape_origin(shape)})
    /\ owned' = owned \cup {NewHandle}

\* Canvas::add
Canvas_add(h) ==
    /\ shapes' = Append(shapes, h)
    /\ owned' = owned \ {h}

\* the main thread starts a call of its own
Call(op, idx, arg) == frames' = frames (+) SetToBag({Frame("main", op, idx, arg, FirstPc(op))})

MainFrames == {f \in Running : f.thr = "main"}

\* lines 101-104
MainNewCircle ==
    /\ MainAt("new_circle")
    /\ New(Circle(Coord_default, 5))
    /\ Goto("new_rectangle")
    /\ UNCHANGED <<shapes, frames, out, nworkers, start, overlap>>

\* lines 106-110
MainNewRectangle ==
    /\ MainAt("new_rectangle")
    /\ New(Rectangle(Coord_default, 2, 4))
    /\ Goto("new_triangle")
    /\ UNCHANGED <<shapes, frames, out, nworkers, start, overlap>>

\* lines 112-116
MainNewTriangle ==
    /\ MainAt("new_triangle")
    /\ New(Triangle(Coord_default, 2, 4))
    /\ Goto("add_circle")
    /\ UNCHANGED <<shapes, frames, out, nworkers, start, overlap>>

\* lines 118-119
MainAddCircle ==
    /\ MainAt("add_circle")
    /\ Canvas_add(1)
    /\ Goto("add_rectangle")
    /\ UNCHANGED <<heap, guard, frames, out, nworkers, start, overlap, hist>>

\* line 120
MainAddRectangle ==
    /\ MainAt("add_rectangle")
    /\ Canvas_add(2)
    /\ Goto("add_triangle")
    /\ UNCHANGED <<heap, guard, frames, out, nworkers, start, overlap, hist>>

\* line 121
MainAddTriangle ==
    /\ MainAt("add_triangle")
    /\ Canvas_add(3)
    /\ Goto("print1")
    /\ UNCHANGED <<heap, guard, frames, out, nworkers, start, overlap, hist>>

NextLine(line) ==
    CASE line = "print1" -> "set"
      [] line = "set"    -> "print2"
      [] line = "print2" -> "spawn"
      [] line = "print3" -> "exit"

\* lines 125, 133, 150: the argument of println! is evaluated
MainPrintCall ==
    /\ main.line \in {"print1", "print2", "print3"}
    /\ MainFrames = {}
    /\ Call("origin", 1, NoCoord)
    /\ UNCHANGED <<shapes, heap, guard, owned, main, out, nworkers, start, overlap, hist>>

\* lines 123, 131, 148: println! of the origin read
MainPrint ==
    /\ main.line \in {"print1", "print2", "print3"}
    /\ \E f \in MainFrames :
         /\ f.pc = "done"
         /\ out' = Append(out, f.res)
         /\ frames' = frames (-) SetToBag({f})
    /\ Goto(NextLine(main.line))
    /\ UNCHANGED <<shapes, heap, guard, owned, nworkers, start, overlap, hist>>

\* line 129: canvas.set_origin(1, Coord { x: 5.0, y: 5.0 })
MainSetCall ==
    /\ MainAt("set")
    /\ MainFrames = {}
    /\ Call("set_origin", 1, Coord(5, 5))
    /\ UNCHANGED <<shapes, heap, guard, owned, main, out, nworkers, start, overlap, hist>>

MainSetReturn ==
    /\ MainAt("set")
    /\ \E f \in MainFrames :
         /\ f.pc = "done"
         /\ frames' = frames (-) SetToBag({f})
    /\ Goto(NextLine(main.line))
    /\ UNCHANGED <<shapes, heap, guard, owned, out, nworkers, start, overlap, hist>>

\* variant: the workers move the triangle at index 2
MainSpawn_Idx2 ==
    /\ MainAt("spawn")
    /\ main.i < nworkers
    /\ frames' = frames (+) SetToBag({Frame("worker", "incr", 2, NoCoord, FirstPc("incr"))})
    /\ main' = [main EXCEPT !.i = @ + 1]
    /\ start' = IF main.i = 0 THEN Shape_origin(heap[Canvas_get(1)]) ELSE start
    /\ UNCHANGED <<shapes, heap, guard, owned, out, nworkers, overlap, hist>>

\* lines 139-145: one turn of the loop spawns one worker running the closure
MainSpawn ==
    /\ MainAt("spawn")
    /\ main.i < nworkers
    /\ frames' = frames (+) SetToBag({Frame("worker", "incr", 1, NoCoord, FirstPc("incr"))})
    /\ main' = [main EXCEPT !.i = @ + 1]
    /\ start' = IF main.i = 0 THEN Shape_origin(heap[Canvas_get(1)]) ELSE start
    /\ UNCHANGED <<shapes, heap, guard, owned, out, nworkers, overlap, hist>>

\* variant: the scope does not wait for its threads
MainJoin_Early ==
    /\ MainAt("spawn")
    /\ main.i = nworkers
    /\ frames' = EmptyBag
    /\ Goto("print3")
    /\ UNCHANGED <<shapes, heap, guard, owned, out, nworkers, start, overlap, hist>>

\* line 146: thread::scope returns once every spawned thread has finished
MainJoin ==
    /\ MainAt("spawn")
    /\ main.i = nworkers
    /\ LiveWorkers = {}
    /\ \A f \in Workers : f.pc = "done"
    /\ frames' = EmptyBag
    /\ Goto("print3")
    /\ UNCHANGED <<shapes, heap, guard, owned, out, nworkers, start, overlap, hist>>

MainStep ==
    \/ MainNewCircle
    \/ MainNewRectangle
    \/ MainNewTriangle
    \/ MainAddCircle
    \/ MainAddRectangle
    \/ MainAddTriangle
    \/ MainPrintCall
    \/ MainPrint
    \/ MainSetCall
    \/ MainSetReturn
    \/ MainSpawn
    \/ MainJoin

InitMain ==
    /\ shapes = <<>>
    /\ heap = <<>>
    /\ guard = <<>>
    /\ owned = {}
    /\ frames = EmptyBag
    /\ main = [line |-> "new_circle", i |-> 0]
    /\ out = <<>>
    /\ nworkers = NumWorkers
    /\ start = Coord_default
    /\ overlap = FALSE
    /\ hist = <<>>

NextMain ==
    \/ MainStep
    \/ \E f \in Running : OriginLock(f)
    \/ \E f \in Running : OriginReadX(f)
    \/ \E f \in Running : OriginReadY(f)
    \/ \E f \in Running : SetOriginLock(f)
    \/ \E f \in Running : SetOriginWriteX(f)
    \/ \E f \in Running : SetOriginWriteY(f)

SpecMain == InitMain /\ [][NextMain]_vars

\* a thread that can take a step is eventually scheduled, and a guard that
\* is free is eventually given to a thread waiting for it
SpecMainFair == InitMain /\ [][NextMain]_vars /\ WF_vars(NextMain)

--------------------------------------------------------------------------
(* The increment workload of lines 137-151 for any number of workers and   *)
(* any initial origin.x: the canvas main builds, the rectangle at (x0, 5). *)

InitWorkers ==
    /\ shapes = <<1, 2, 3>>
    /\ \E x0 \in 0..MaxX0 :
         /\ heap = <<Circle(Coord_default, 5), Rectangle(Coord(x0, 5), 2, 4),
                     Triangle(Coord_default, 2, 4)>>
         /\ hist = <<{Coord_default}, {Coord(x0, 5)}, {Coord_default}>>
    /\ guard = <<"free", "free", "free">>
    /\ owned = {}
    /\ frames = EmptyBag
    /\ main = [line |-> "spawn", i |-> 0]
    /\ out = <<>>
    /\ nworkers \in 1..MaxWorkers
    /\ start = Coord_default
    /\ overlap = FALSE

NextWorkers ==
    \/ MainSpawn
    \/ MainJoin
    \/ MainPrintCall
    \/ MainPrint
    \/ \E f \in Running : OriginLock(f)
    \/ \E f \in Running : OriginReadX(f)
    \/ \E f \in Running : OriginReadY(f)
    \/ \E f \in Running : SetOriginLock(f)
    \/ \E f \in Running : SetOriginWriteX(f)
    \/ \E f \in Running : SetOriginWriteY(f)

SpecWorkers == InitWorkers /\ [][NextWorkers]_vars

--------------------------------------------------------------------------
(* Any concurrent use of the Canvas API: a canvas of n shapes is lent to   *)
(* scoped threads that call get, get_area, set_origin and origin on it.    *)

CoordArgs == {Coord(k, k) : k \in 1..MaxCoord}

\* the indices in range and the first one out of range
Indices == 0..Len(shapes)

\* the shapes main creates, in its order
ShapeNo(n) ==
    CASE n % 3 = 1 -> Circle(Coord_default, 5)
      [] n % 3 = 2 -> Rectangle(Coord_default, 2, 4)
      [] n % 3 = 0 -> Triangle(Coord_default, 2, 4)

\* a scoped thread is given one call on the shared canvas
ApiSpawn(op, index, c) ==
    /\ MainAt("api")
    /\ main.i < MaxCalls
    /\ frames' = frames (+) SetToBag({Frame("worker", op, index, c, FirstPc(op))})
    /\ main' = [main EXCEPT !.i = @ + 1]
    /\ UNCHANGED <<shapes, heap, guard, owned, out, nworkers, start, overlap, hist>>

\* the scope ends when every thread has finished
ApiJoin ==
    /\ MainAt("api")
    /\ frames # EmptyBag
    /\ LiveWorkers = {}
    /\ \A f \in Workers : f.pc = "done"
    /\ frames' = EmptyBag
    /\ UNCHANGED <<shapes, heap, guard, owned, main, out, nworkers, start, overlap, hist>>

\* ... and panics if one of them has panicked
ApiJoinPanic ==
    /\ MainAt("api")
    /\ LiveWorkers = {}
    /\ \E f \in Workers : f.pc = "panicked"
    /\ frames' = EmptyBag
    /\ Goto("panicked")
    /\ UNCHANGED <<shapes, heap, guard, owned, out, nworkers, start, overlap, hist>>

\* Canvas { shapes: vec![..] } of n shapes, as tests::update_origin builds it
InitApi ==
    /\ \E n \in 0..MaxShapes :
         /\ shapes = [k \in 1..n |-> k]
         /\ heap = [k \in 1..n |-> ShapeNo(k)]
         /\ guard = [k \in 1..n |-> "free"]
         /\ hist = [k \in 1..n |-> {Coord_default}]
    /\ owned = {}
    /\ frames = EmptyBag
    /\ main = [line |-> "api", i |-> 0]
    /\ out = <<>>
    /\ nworkers = 0
    /\ start = Coord_default
    /\ overlap = FALSE

NextApi ==
    \/ \E index \in Indices : \E op \in {"origin", "get_area", "get"} : ApiSpawn(op, index, NoCoord)
    \/ \E index \in Indices : \E c \in CoordArgs : \E op \in {"set_origin", "update"} : ApiSpawn(op, index, c)
    \/ ApiJoin
    \/ ApiJoinPanic
    \/ \E f \in Running : OriginLock(f)
    \/ \E f \in Running : OriginUnwrapNone(f)
    \/ \E f \in Running : OriginReadX(f)
    \/ \E f \in Running : OriginReadY(f)
    \/ \E f \in Running : SetOriginLock(f)
    \/ \E f \in Running : SetOriginNone(f)
    \/ \E f \in Running : SetOriginWriteX(f)
    \/ \E f \in Running : SetOriginWriteY(f)
    \/ \E f \in Running : GetAreaLock(f)
    \/ \E f \in Running : GetAreaNone(f)
    \/ \E f \in Running : GetAreaCalc(f)
    \/ \E f \in Running : GetCall(f)

SpecApi == InitApi /\ [][NextApi]_vars

--------------------------------------------------------------------------
(* Shape::get_area on its own, as tests::calculate_shape_areas calls it:   *)
(* a shape of any dimensions at the default origin, its area taken before  *)
(* and after the origin is moved.                                          *)

Dims == 0..MaxDim

AnyShape ==
    {Circle(Coord_default, r) : r \in Dims}
        \cup {Rectangle(Coord_default, a, b) : a \in Dims, b \in Dims}
        \cup {Triangle(Coord_default, b, h) : b \in Dims, h \in Dims}

\* shape.get_area() (line 166)
AreaGet ==
    /\ MainAt("area")
    /\ Len(out) < 2
    /\ out' = Append(out, Shape_get_area(heap[1]))
    /\ UNCHANGED <<shapes, heap, guard, owned, frames, main, nworkers, start, overlap, hist>>

\* shape.set_origin(c) (lines 39-41, 52-54, 65-67)
AreaMove(c) ==
    /\ MainAt("area")
    /\ main.i = 0
    /\ Len(out) = 1
    /\ heap' = [heap EXCEPT ![1] = Shape_set_origin_y(Shape_set_origin_x(@, c.x), c.y)]
    /\ hist' = [hist EXCEPT ![1] = @ \cup {c}]
    /\ main' = [main EXCEPT !.i = @ + 1]
    /\ UNCHANGED <<shapes, guard, owned, frames, out, nworkers, start, overlap>>

InitArea ==
    /\ shapes = <<>>
    /\ \E s \in AnyShape : heap = <<s>>
    /\ guard = <<"free">>
    /\ hist = <<{Coord_default}>>
    /\ owned = {1}
    /\ frames = EmptyBag
    /\ main = [line |-> "area", i |-> 0]
    /\ out = <<>>
    /\ nworkers = 0
    /\ start = Coord_default
    /\ overlap = FALSE

NextArea ==
    \/ AreaGet
    \/ \E c \in CoordArgs : AreaMove(c)

SpecArea == InitArea /\ [][NextArea]_vars

--------------------------------------------------------------------------
(* Poisoning.  The canvas holds dyn Shape objects, so a method called      *)
(* under the guard may be one that panics; the unwinding thread drops the  *)
(* MutexGuard, which marks the Mutex poisoned and unlocks it.              *)

\* the guards whose holder may panic at this point
HolderPcs == {"o_x", "o_y", "s_x", "s_y", "a_calc"}

\* the thread panics inside origin(), set_origin() or get_area() of the shape
HolderPanics(f) ==
    /\ f.pc \in HolderPcs
    /\ guard' = [guard EXCEPT ![f.h] = "poisoned"]
    /\ Replace(f, Panicked(f))
    /\ UNCHANGED <<shapes, heap, owned, main, out, nworkers, start, overlap, hist>>

\* variant: the poison is ignored and the guard taken (PoisonError::into_inner)
LockPoisoned_IntoInner(f) ==
    /\ f.pc \in {"o_lock", "s_lock", "a_lock"}
    /\ Canvas_get(f.idx) # None
    /\ LET h == Canvas_get(f.idx) IN
         /\ guard[h] = "poisoned"
         /\ Lock(h)
         /\ Replace(f, [f EXCEPT !.h = h,
                                 !.pc = CASE f.pc = "o_lock" -> "o_x"
                                          [] f.pc = "s_lock" -> "s_x"
                                          [] f.pc = "a_lock" -> "a_calc"])
    /\ UNCHANGED <<shapes, heap, owned, main, out, nworkers, start, overlap, hist>>

\* lock() on a poisoned Mutex returns Err, and unwrap() panics (lines 91, 95,
\* 125, 133, 142, 150); the Mutex stays poisoned and unlocked
LockPoisoned(f) ==
    /\ f.pc \in {"o_lock", "s_lock", "a_lock"}
    /\ Canvas_get(f.idx) # None
    /\ guard[Canvas_get(f.idx)] = "poisoned"
    /\ Replace(f, Panicked(f))
    /\ UNCHANGED <<shapes, heap, guard, owned, main, out, nworkers, start, overlap, hist>>

NextPoison ==
    \/ NextApi
    \/ \E f \in Running : HolderPanics(f)
    \/ \E f \in Running : LockPoisoned(f)

SpecPoison == InitApi /\ [][NextPoison]_vars

--------------------------------------------------------------------------
(* The owner of a canvas, single-threaded: it adds and removes handles     *)
(* (&mut self) and calls get, get_area, set_origin and origin in between.  *)

\* the owner's record of its last two calls and of what remove returned
Called(op, index, ret) ==
    main' = [main EXCEPT !.i = @ + 1, !.prev = main.op, !.op = op,
                         !.idx = index, !.ret = ret]

OwnIdle == MainAt("own") /\ MainFrames = {} /\ main.i < MaxOps

\* Canvas::add (lines 81-83) of a handle the owner holds
OwnAdd(h) ==
    /\ OwnIdle
    /\ h \in owned
    /\ Canvas_add(h)
    /\ Called("add", Len(shapes), None)
    /\ UNCHANGED <<heap, guard, frames, out, nworkers, start, overlap, hist>>

\* Canvas::remove (lines 87-89), index in range: the handle goes to the caller
OwnRemove(index) ==
    /\ OwnIdle
    /\ index < Len(shapes)
    /\ shapes' = VecRemove(shapes, index)
    /\ owned' = owned \cup {shapes[index + 1]}
    /\ Called("remove", index, shapes[index + 1])
    /\ UNCHANGED <<heap, guard, frames, out, nworkers, start, overlap, hist>>

\* variant: an index past the end removes the last handle
OwnRemovePanic_Clamp(index) ==
    /\ OwnIdle
    /\ index >= Len(shapes)
    /\ IF shapes = <<>>
       THEN /\ Called("remove", index, None)
            /\ UNCHANGED <<shapes, owned>>
       ELSE /\ shapes' = SubSeq(shapes, 1, Len(shapes) - 1)
            /\ owned' = owned \cup {shapes[Len(shapes)]}
            /\ Called("remove", index, shapes[Len(shapes)])
    /\ UNCHANGED <<heap, guard, frames, out, nworkers, start, overlap, hist>>

\* Canvas::remove, index out of range: Vec::remove panics before it moves anything
OwnRemovePanic(index) ==
    /\ OwnIdle
    /\ index >= Len(shapes)
    /\ main' = [main EXCEPT !.line = "panicked", !.i = @ + 1, !.prev = main.op,
                            !.op = "remove", !.idx = index, !.ret = None]
    /\ UNCHANGED <<shapes, heap, guard, owned, frames, out, nworkers, start, overlap, hist>>

\* the owner calls get, get_area, set_origin or origin itself
OwnCall(op, index, c) ==
    /\ OwnIdle
    /\ Call(op, index, c)
    /\ Called(op, index, main.ret)
    /\ UNCHANGED <<shapes, heap, guard, owned, out, nworkers, start, overlap, hist>>

\* the call returns
OwnReturn ==
    /\ MainAt("own")
    /\ \E f \in MainFrames :
         /\ f.pc = "done"
         /\ frames' = frames (-) SetToBag({f})
    /\ UNCHANGED <<shapes, heap, guard, owned, main, out, nworkers, start, overlap, hist>>

\* the call panics (unwrap of None), and the owner with it
OwnPanic ==
    /\ MainAt("own")
    /\ \E f \in MainFrames : f.pc = "panicked"
    /\ Goto("panicked")
    /\ UNCHANGED <<shapes, heap, guard, owned, frames, out, nworkers, start, overlap, hist>>

InitOwner ==
    /\ \E n \in 0..MaxShapes :
         /\ shapes = [k \in 1..n |-> k]
         /\ heap = [k \in 1..n |-> ShapeNo(k)]
         /\ guard = [k \in 1..n |-> "free"]
         /\ hist = [k \in 1..n |-> {Coord_default}]
    /\ owned = {}
    /\ frames = EmptyBag
    /\ main = [line |-> "own", i |-> 0, prev |-> "none", op |-> "none", idx |-> 0, ret |-> None]
    /\ out = <<>>
    /\ nworkers = 0
    /\ start = Coord_default
    /\ overlap = FALSE

NextOwner ==
    \/ \E h \in DOMAIN heap : OwnAdd(h)
    \/ \E index \in Indices : OwnRemove(index)
    \/ \E index \in Indices : OwnRemovePanic(index)
    \/ \E index \in Indices : \E op \in {"origin", "get_area", "get"} : OwnCall(op, index, NoCoord)
    \/ \E index \in Indices : \E c \in CoordArgs : OwnCall("set_origin", index, c)
    \/ OwnReturn
    \/ OwnPanic
    \/ \E f \in Running : OriginLock(f)
    \/ \E f \in Running : OriginUnwrapNone(f)
    \/ \E f \in Running : OriginReadX(f)
    \/ \E f \in Running : OriginReadY(f)
    \/ \E f \in Running : SetOriginLock(f)
    \/ \E f \in Running : SetOriginNone(f)
    \/ \E f \in Running : SetOriginWriteX(f)
    \/ \E f \in Running : SetOriginWriteY(f)
    \/ \E f \in Running : GetAreaLock(f)
    \/ \E f \in Running : GetAreaNone(f)
    \/ \E f \in Running : GetAreaCalc(f)
    \/ \E f \in Running : GetCall(f)

SpecOwner == InitOwner /\ [][NextOwner]_vars

--------------------------------------------------------------------------
(* Properties                                                              *)

\* the rectangle main puts at index 1
Target == Shape_origin(heap[shapes[2]])

\* every worker of the scope has been spawned and has finished
AllFinished ==
    /\ main.line \in {"spawn", "print3", "exit"}
    /\ nworkers >= 1
    /\ main.i = nworkers
    /\ LiveWorkers = {}

\* the frames that hold the guard of handle h
Holders(h) == {f \in Running : Holding(f) /\ f.h = h}

\* the frames that may write the shape of handle h
Writers(h) == {f \in Running : f.op \in {"set_origin", "update", "incr"}
                               /\ f.idx < Len(shapes) /\ shapes[f.idx + 1] = h}

AtLock(f) == f.pc \in {"o_lock", "s_lock", "a_lock"}

\* the step taken is a step of frame f
StepOf(f) == CopiesIn(f, frames') < CopiesIn(f, frames)

\* the step taken turns one frame into g
Becomes(g) == CopiesIn(g, frames') = CopiesIn(g, frames) + 1

\* C1: once all N workers have finished, origin.x of the shape they
\* incremented lies in [initial_x + 1, initial_x + N].
C1_FinalInRange ==
    AllFinished => Target.x \in (start.x + 1)..(start.x + nworkers)

C1_Witness ==
    AllFinished /\ nworkers >= 2 /\ Target.x = start.x + 1

\* C2: if the final origin.x is initial_x + N, no worker read the origin
\* between another worker's read and that worker's write: the N read-write
\* pairs ran one after another.
C2_FullOnlyIfSerial ==
    (AllFinished /\ Target.x = start.x + nworkers) => ~overlap

C2_Witness ==
    AllFinished /\ nworkers >= 2 /\ Target.x = start.x + nworkers /\ ~overlap

\* C3: updates can be lost.  A run in which some worker reads inside another
\* worker's read-write gap ends below initial_x + N, and such a run exists
\* for N >= 2 (the witness).
C3_OverlapLosesUpdate ==
    (AllFinished /\ overlap) => Target.x < start.x + nworkers

C3_Witness ==
    AllFinished /\ nworkers >= 2 /\ overlap /\ Target.x < start.x + nworkers

\* C4: main prints (0,0) first, (5,5) after set_origin(1, (5,5)), and after
\* the 10 workers have finished the rectangle's origin has x in 6..15 and
\* y = 5, which is what the third line prints.
C4_MainScenario ==
    /\ Len(out) >= 1 => out[1] = Coord(0, 0)
    /\ Len(out) >= 2 => out[2] = Coord(5, 5)
    /\ AllFinished => (Target.x \in 6..15 /\ Target.y = 5)
    /\ Len(out) >= 3 => (out[3].x \in 6..15 /\ out[3].y = 5)

C4_Witness ==
    main.line = "exit" /\ Len(out) = 3 /\ out[3] = Coord(6, 5)

\* C5: an origin read under the guard is the initial origin or a Coord that
\* a completed set_origin stored whole; while a reader holds the guard the
\* shape's origin is such a Coord.
C5_NoTornOrigin ==
    /\ \A f \in Running :
         (f.pc = "done" /\ f.op \in {"origin", "update"} /\ f.idx < Len(shapes))
            => f.res \in hist[shapes[f.idx + 1]]
    /\ \A f \in Running :
         f.pc \in {"o_x", "o_y", "a_calc"} => Shape_origin(heap[f.h]) \in hist[f.h]

\* a read returned, whole, the Coord another thread's set_origin stored
C5_Witness ==
    \E f \in Running : \E g \in Running :
        /\ f.pc = "done" /\ f.op = "update" /\ f.idx < Len(shapes)
        /\ g.op = "set_origin" /\ g.idx = f.idx
        /\ f.res = g.arg /\ f.res # f.arg

\* C6: at most one thread holds the guard of a shape, and the guard is
\* locked exactly while a thread holds it.
C6_MutualExclusion ==
    \A h \in DOMAIN guard :
        /\ Count(Holders(h)) <= 1
        /\ (guard[h] = "locked") <=> (Count(Holders(h)) = 1)

\* a thread holds the guard while another waits for the same guard
C6_Witness ==
    \E f \in Running : \E g \in Running :
        /\ Holding(f) /\ AtLock(g)
        /\ g.idx < Len(shapes) /\ shapes[g.idx + 1] = f.h

\* C7: with no other writer of the shape, set_origin(i, c) on an index in
\* range followed by get(i)...origin() reads c.
C7_SetThenGet ==
    \A f \in Running :
        (/\ f.op = "update" /\ f.pc = "done" /\ f.idx < Len(shapes)
         /\ Count(Writers(shapes[f.idx + 1])) = 1)
            => f.res = f.arg

\* ... where the origin before the call was neither the default nor c
C7_Witness ==
    \E f \in Running :
        /\ f.op = "update" /\ f.pc = "done" /\ f.idx < Len(shapes)
        /\ Count(Writers(shapes[f.idx + 1])) = 1
        /\ f.res = f.arg
        /\ hist[shapes[f.idx + 1]] \ {Coord_default, f.arg} # {}

\* C8: set_origin on an index out of range returns without panicking,
\* takes no guard and changes neither a shape nor the canvas.
C8_SetOriginOutOfRange ==
    [][\A f \in Running :
          (f.op = "set_origin" /\ f.pc = "s_lock" /\ f.idx >= Len(shapes) /\ StepOf(f))
             => /\ Becomes(Done(f))
                /\ heap' = heap
                /\ guard' = guard
                /\ shapes' = shapes]_vars

C8_Witness ==
    \E f \in Running :
        /\ f.op = "set_origin" /\ f.pc = "done" /\ f.idx >= Len(shapes)
        /\ Len(shapes) >= 1

\* C9: get(i) returns the handle at position i when i is in range and None
\* otherwise, never panics, and changes neither the canvas nor a shape.
C9_Get ==
    [][\A f \in Running :
          (f.op = "get" /\ f.pc = "g_get" /\ StepOf(f))
             => /\ Becomes([Done(f) EXCEPT
                              !.got = IF f.idx < Len(shapes) THEN shapes[f.idx + 1] ELSE None])
                /\ heap' = heap
                /\ guard' = guard
                /\ shapes' = shapes]_vars

C9_Witness ==
    \E f \in Running : \E g \in Running :
        /\ f.op = "get" /\ f.pc = "done" /\ f.idx < Len(shapes) /\ f.got = shapes[f.idx + 1]
        /\ g.op = "get" /\ g.pc = "done" /\ g.idx >= Len(shapes) /\ g.got = None

\* C10: every index of the canvas has a guard of its own, and a thread in
\* set_origin or get_area on index i can take the guard exactly when the
\* guard of the shape at index i is free, whatever other guards are held.
C10_NoCrossContention ==
    /\ \A i \in 1..Len(shapes) : \A j \in 1..Len(shapes) : shapes[i] = shapes[j] => i = j
    /\ \A f \in Running :
         (f.pc \in {"s_lock", "a_lock"} /\ f.idx < Len(shapes))
            => ((ENABLED (SetOriginLock(f) \/ GetAreaLock(f)))
                    <=> guard[shapes[f.idx + 1]] = "free")

\* a thread can take the guard of its shape while another shape's guard is held
C10_Witness ==
    \E f \in Running : \E g \in Running :
        /\ f.pc \in {"s_lock", "a_lock"} /\ f.idx < Len(shapes)
        /\ Holding(g) /\ g.h # shapes[f.idx + 1]
        /\ ENABLED (SetOriginLock(f) \/ GetAreaLock(f))

\* C11: in main's run every worker finishes and main reaches its end, and
\* the final read of the rectangle's origin starts only when all 10 workers
\* have finished their read and their write.
C11_WorkersCompleteBeforePrint ==
    /\ <>(main.line = "exit")
    /\ [][(main.line = "spawn" /\ main'.line = "print3")
             => /\ Count(Workers) = NumWorkers
                /\ \A f \in Workers : f.pc = "done"]_vars
    /\ [](main.line \in {"print3", "exit"} => Workers = {})

C11_Witness ==
    main.line = "print3" /\ frames = EmptyBag /\ main.i = NumWorkers /\ Len(out) = 2

\* the step taken is the owner's call of remove
RemoveStep == main'.i = main.i + 1 /\ main'.op = "remove"

\* C12: remove(i) on an index in range returns the handle that was at i,
\* shortens the canvas by one, keeps positions before i and moves the later
\* handles one position down; a set_origin(i, c) right after it sets the
\* shape now at i, and the removed shape is never changed through the canvas.
C12_RemoveShifts ==
    /\ [][(RemoveStep /\ main'.idx < Len(shapes))
             => LET i == main'.idx IN
                  /\ main'.line = "own"
                  /\ main'.ret = shapes[i + 1]
                  /\ owned' = owned \cup {shapes[i + 1]}
                  /\ Len(shapes') = Len(shapes) - 1
                  /\ \A k \in 1..i : shapes'[k] = shapes[k]
                  /\ \A k \in (i + 1)..Len(shapes') : shapes'[k] = shapes[k + 1]
                  /\ heap' = heap
                  /\ guard' = guard]_vars
    /\ [][\A h \in owned \cap owned' : heap'[h] = heap[h]]_vars
    /\ [](\A f \in MainFrames :
            (/\ f.op = "set_origin" /\ f.pc = "done"
             /\ main.prev = "remove" /\ main.ret # None
             /\ f.idx = main.idx /\ f.idx < Len(shapes))
               => /\ shapes[f.idx + 1] # main.ret
                  /\ Shape_origin(heap[shapes[f.idx + 1]]) = f.arg)

\* remove(0) of a canvas of two shapes, then set_origin(0, c)
C12_Witness ==
    \E f \in MainFrames :
        /\ f.op = "set_origin" /\ f.pc = "done"
        /\ main.prev = "remove" /\ main.ret # None
        /\ f.idx = main.idx /\ f.idx < Len(shapes)
        /\ Shape_origin(heap[shapes[f.idx + 1]]) = f.arg
        /\ Shape_origin(heap[main.ret]) = Coord_default

\* C13: remove(i) on an index out of range panics, returns no handle and
\* leaves the canvas as it was.
C13_RemoveOutOfRange ==
    [][(RemoveStep /\ main'.idx >= Len(shapes))
          => /\ main'.line = "panicked"
             /\ main'.ret = None
             /\ shapes' = shapes
             /\ owned' = owned
             /\ heap' = heap]_vars

C13_Witness ==
    main.line = "panicked" /\ main.op = "remove" /\ main.idx >= Len(shapes) /\ Len(shapes) >= 1

\* C14: get_area(i) on an index in range takes the guard of the shape at
\* i, returns Some(area of that shape) and has dropped the guard when it
\* returns; on an index out of range it returns None and takes no guard.
\* No step of it changes a shape or the canvas.
C14_GetAreaFrame ==
    [][\A f \in Running :
          (f.op = "get_area" /\ StepOf(f))
             => /\ heap' = heap
                /\ shapes' = shapes
                /\ (f.pc = "a_lock" /\ f.idx < Len(shapes))
                      => LET h == shapes[f.idx + 1] IN
                           /\ guard[h] = "free"
                           /\ guard' = [guard EXCEPT ![h] = "locked"]
                           /\ Becomes([f EXCEPT !.pc = "a_calc", !.h = h])
                /\ (f.pc = "a_lock" /\ f.idx >= Len(shapes))
                      => /\ guard' = guard
                         /\ Becomes([Done(f) EXCEPT !.area = NoArea])
                /\ f.pc = "a_calc"
                      => /\ guard[f.h] = "locked"
                         /\ guard' = [guard EXCEPT ![f.h] = "free"]
                         /\ Becomes([Done(f) EXCEPT !.area =
                                SomeArea(Shape_get_area(heap[shapes[f.idx + 1]]))])]_vars

C14_Witness ==
    \E f \in Running : \E g \in Running :
        /\ f.op = "get_area" /\ f.pc = "done" /\ f.idx < Len(shapes)
        /\ f.area.some /\ guard[shapes[f.idx + 1]] = "free"
        /\ g.op = "get_area" /\ g.pc = "done" /\ g.idx >= Len(shapes) /\ ~g.area.some

\* C15: once the holder of a shape's guard has panicked, the guard stays
\* poisoned, the shape is never written again, and every later
\* lock().unwrap() on it (in set_origin, get_area or a direct read) panics.
C15_PoisonIsFatal ==
    /\ [][\A h \in DOMAIN guard :
            guard[h] = "poisoned"
               => /\ guard'[h] = "poisoned"
                  /\ heap'[h] = heap[h]
                  /\ \A f \in Running :
                       (AtLock(f) /\ f.idx < Len(shapes) /\ shapes[f.idx + 1] = h /\ StepOf(f))
                          => Becomes(Panicked(f))]_vars
    /\ [](\A f \in Running : Holding(f) => guard[f.h] = "locked")

\* the holder has panicked and a later caller on the same shape has too
C15_Witness ==
    \E h \in DOMAIN guard :
        /\ guard[h] = "poisoned"
        /\ Count({f \in Running : f.pc = "panicked" /\ f.idx < Len(shapes)
                                  /\ shapes[f.idx + 1] = h}) >= 2

\* C16: get_area is side_a * side_b for a rectangle, 0.5 * base * height
\* for a triangle and pi * radius^2 for a circle, wherever the origin is;
\* Rectangle(2, 4) gives 8.0 and Triangle(2, 4) gives 4.0.
C16_AreaFormulas ==
    \A k \in 1..Len(out) :
        LET s == heap[1]
            a == out[k]
        IN  /\ s.kind = "Rectangle" => (~a.pi /\ a.twice = 2 * (s.side_a * s.side_b))
            /\ s.kind = "Triangle"  => (~a.pi /\ a.twice = s.base * s.height)
            /\ s.kind = "Circle"    => (a.pi /\ a.twice = 2 * (s.radius * s.radius))
            /\ (s.kind = "Rectangle" /\ s.side_a = 2 /\ s.side_b = 4) => a = [pi |-> FALSE, twice |-> 16]
            /\ (s.kind = "Triangle" /\ s.base = 2 /\ s.height = 4) => a = [pi |-> FALSE, twice |-> 8]
            /\ a = out[1]

\* the area of Triangle(2, 4) taken before and after its origin was moved
C16_Witness ==
    /\ Len(out) = 2
    /\ main.i = 1
    /\ heap[1].kind = "Triangle" /\ heap[1].base = 2 /\ heap[1].height = 4
    /\ Shape_origin(heap[1]) # Coord_default
    /\ out[2] = [pi |-> FALSE, twice |-> 8]

\* C17: a worker's read and its write are two critical sections.  A thread
\* about to lock holds no guard, a locked guard belongs to a thread inside
\* a critical section (never to a worker between its read and its write),
\* and while a worker is in that gap with the guard free any thread waiting
\* to read can take it.
C17_TwoCriticalSections ==
    /\ \A f \in Running : AtLock(f) => f.h = None
    /\ \A h \in DOMAIN guard : guard[h] = "locked" => Holders(h) # {}
    /\ \A f \in Running :
         (InGap(f) /\ f.pc = "s_lock" /\ guard[shapes[f.idx + 1]] = "free")
            => \A g \in Running : g.pc = "o_lock" => ENABLED OriginLock(g)

\* another worker holds the guard between a worker's read and its write
C17_Witness ==
    \E f \in Running : \E g \in Running :
        /\ InGap(f) /\ f.pc = "s_lock"
        /\ g.op = "incr" /\ g.pc \in {"o_x", "o_y"}
        /\ g.h = shapes[f.idx + 1]

\* C18: last writer wins.  At most one worker holds the rectangle's guard,
\* so the writes are ordered by acquisition; a worker carries the x it read
\* plus one into its write; the origin changes only by a step of the guard's
\* holder; and the step that completes a write leaves exactly that worker's
\* value in the shape and frees the guard, whatever was written before.
\* The origin after the last such step is therefore the last writer's.
C18_LastWriterWins ==
    /\ [](Cardinality(Holders(shapes[2])) <= 1)
    /\ [][\A f \in Running : (f.op = "incr" /\ StepOf(f)) =>
            /\ f.pc = "o_y" =>
                 Becomes([f EXCEPT !.pc = "s_lock", !.h = None,
                                   !.loc = Coord(Target.x + 1, Target.y)])
            /\ f.pc = "s_lock" => (guard[shapes[2]] = "free" /\ Target' = Target)
            /\ f.pc = "s_y" => (Target' = f.loc /\ guard'[shapes[2]] = "free")]_vars
    /\ [][Target' # Target =>
            \E f \in Holders(shapes[2]) : f.pc \in {"s_x", "s_y"} /\ StepOf(f)]_vars
    /\ []((AllFinished /\ nworkers >= 1) => Target \in hist[shapes[2]])

\* all workers finished and the surviving x is below one written earlier
C18_Witness ==
    AllFinished /\ \E c \in hist[shapes[2]] : c.x > Target.x

\* C19: Canvas::get takes no guard.  A pending get can always complete,
\* also while the guard of the shape it names is held, and its step
\* returns Canvas_get(index) and leaves every guard as it was.
C19_GetDoesNotLock ==
    /\ [](\A f \in Running : f.pc = "g_get" => ENABLED GetCall(f))
    /\ [][\A f \in Running : (f.pc = "g_get" /\ StepOf(f)) =>
            /\ guard' = guard
            /\ Becomes([Done(f) EXCEPT !.got = Canvas_get(f.idx)])]_vars

\* a get of an in-range index is pending while that shape's guard is held
C19_Witness ==
    \E f \in Running :
        /\ f.pc = "g_get"
        /\ Canvas_get(f.idx) # None
        /\ guard[Canvas_get(f.idx)] = "locked"
        /\ ENABLED GetCall(f)

\* C20: from the first spawn on the canvas is <<circle, rectangle,
\* triangle>>, the circle and the triangle are as constructed with origin
\* (0,0), and of the rectangle only the origin differs from construction.
C20_CanvasStructureConstant ==
    main.line \in {"spawn", "print3", "exit"} =>
        /\ shapes = <<1, 2, 3>>
        /\ heap[1] = Circle(Coord_default, 5)
        /\ heap[3] = Triangle(Coord_default, 2, 4)
        /\ heap[2] = Rectangle(Target, 2, 4)
        /\ Len(heap) = 3

\* a worker is inside its write and the rectangle has already moved
C20_Witness ==
    /\ main.line = "spawn"
    /\ Target.x >= 7
    /\ \E f \in Running : f.thr = "worker" /\ f.pc = "s_y"

====
